---- MODULE Spec2Model ----
(***************************************************************************)
(* A model of the private-gpt backend: the token dependency                *)
(* (users/api/deps.py), the ingestion router (server/ingest), the chat     *)
(* history router (users/api/v1/routers), the completions SSE stream       *)
(* (completions/routes.py, src/api/main.py) and ChatService                *)
(* (server/chat/chat_service.py).                                          *)
(*                                                                         *)
(* Each HTTP handler is one atomic action.  External collaborators that    *)
(* the handlers guard with try/except (the ORM create, the upload write,   *)
(* the ingest service) may raise; whether they do is an input of the       *)
(* action.                                                                 *)
(***************************************************************************)
EXTENDS Integers, Sequences, FiniteSets, TLC

(***************************************************************************)
(* Bounds of the model.                                                    *)
(***************************************************************************)
MaxAudit == 3
MaxDocs == 2
MaxDocsPerFile == 2
MaxChats == 2
MaxMessages == 1
MaxResponses == 3
MaxChatMessages == 3

(***************************************************************************)
(* Python's None where a string is expected, and the id of a payload that  *)
(* carries no "id".                                                        *)
(***************************************************************************)
None == "None"
NoId == 0
\* None where a database row is expected.
NoRow == [id |-> NoId]

VARIABLES
    documents,      \* rows of the "document" table
    ingested,       \* IngestedDoc's of the storage context: [doc_id, file_name]
    uploads,        \* names of the files present in UPLOAD_DIR
    audit,          \* the audit table: how many rows log_audit wrote, and the last
    chats,          \* rows of the chat history table
    chat_seq,       \* last primary key handed out by the chat history table
    resp,           \* the last HTTP request and the response it got
    sse,            \* the SSE generator: its input, position and output
    svc             \* ChatService: the request and the engine calls made for it

ingest_vars == <<documents, ingested, uploads, audit>>
chat_vars == <<chats, chat_seq>>
vars ==
    <<documents, ingested, uploads, audit, chats, chat_seq, resp, sse, svc>>

(***************************************************************************)
(* Users and tokens.                                                       *)
(***************************************************************************)
GUEST == "GUEST"
ADMIN == "ADMIN"
SUPER_ADMIN == "SUPER_ADMIN"
Roles == {GUEST, ADMIN, SUPER_ADMIN}

UserIds == {1, 2}
UnknownUserId == Cardinality(UserIds) + 1
users == [id \in UserIds |-> [id |-> id, department_id |-> 10 + id]]

\* A bearer token: whether jwt.decode accepts it and, if so, its payload.
\* "valid" says whether TokenPayload(**payload) validates.
Payloads ==
    [id : UserIds \cup {UnknownUserId, NoId}, valid : BOOLEAN,
     role : Roles \cup {None}]
Tokens ==
    [decodable : {TRUE}, payload : Payloads]
    \cup {[decodable |-> FALSE, payload |-> [id |-> NoId, valid |-> FALSE, role |-> None]]}

NoScopes == {}
AdminScopes == {ADMIN, SUPER_ADMIN}

HTTPException(status_code, detail) ==
    [status |-> status_code, detail |-> detail, user |-> NoId]

crud_user_get(id) == IF id \in DOMAIN users THEN users[id] ELSE NoRow

\* get_current_user without its last check, of the role against the scopes.
get_current_user_NoRoleCheck(scopes, token) ==
    IF ~token.decodable
    THEN HTTPException(403, "Could not validate credentials")
    ELSE IF token.payload.id = NoId
    THEN HTTPException(401, "os")
    ELSE IF ~token.payload.valid
    THEN HTTPException(403, "Could not validate credentials")
    ELSE IF crud_user_get(token.payload.id) = NoRow
    THEN HTTPException(401, "os")
    ELSE IF scopes # {} /\ token.payload.role = None
    THEN HTTPException(401, "Not enough permissions")
    ELSE [status |-> 200, detail |-> "", user |-> token.payload.id]

\* deps.get_current_user: the user of the token, or the HTTP error raised.
get_current_user(scopes, token) ==
    IF ~token.decodable
    THEN HTTPException(403, "Could not validate credentials")
    ELSE IF token.payload.id = NoId
    THEN HTTPException(401, "os")
    ELSE IF ~token.payload.valid
    THEN HTTPException(403, "Could not validate credentials")
    ELSE IF crud_user_get(token.payload.id) = NoRow
    THEN HTTPException(401, "os")
    ELSE IF scopes # {} /\ token.payload.role = None
    THEN HTTPException(401, "Not enough permissions")
    ELSE IF scopes # {} /\ token.payload.role \notin scopes
    THEN HTTPException(401, "Not enough permissions")
    ELSE [status |-> 200, detail |-> "", user |-> token.payload.id]

\* The tokens for which Security(get_current_user, scopes) yields a user.
Accepted(scopes) == {t \in Tokens : get_current_user(scopes, t).status = 200}

(***************************************************************************)
(* Requests and responses.                                                 *)
(***************************************************************************)
NoBody == [object |-> "", model |-> "", data |-> {}]

\* "admitted" says whether the dependencies yielded current_user, so that the
\* handler's body ran; "found" is what its lookup
\* returned (file_ingested, doc_ids, chat_history); "fault" names the
\* collaborator that raised, if one did; "touched" are the chat history rows
\* the handler returned, changed or removed.
Response(op, scopes, token, admitted, user, filename, chat_id, found, fault, status, detail, body, touched) ==
    [op |-> op, scopes |-> scopes, token |-> token, admitted |-> admitted,
     user |-> user, filename |-> filename, chat_id |-> chat_id, found |-> found,
     fault |-> fault, status |-> status, detail |-> detail, body |-> body,
     touched |-> touched]

NoResponse ==
    Response("none", NoScopes, CHOOSE t \in Tokens : ~t.decodable, FALSE, NoId,
             None, NoId, FALSE, "none", 0, "", NoBody, {})

\* The dependency raised: the handler's body never ran.
Rejected(op, scopes, token) ==
    LET auth == get_current_user(scopes, token) IN
    resp' = Response(op, scopes, token, FALSE, NoId, None, NoId, FALSE, "none",
                     auth.status, auth.detail, NoBody, {})

(***************************************************************************)
(* The ingestion router.                                                   *)
(***************************************************************************)
FileNames == {"a.pdf", "b.txt"}
DocIds == 1..MaxDocs
Faults == {"none", "create", "write", "ingest"}

\* crud.documents.get_by_filename: the row with that filename, or None.
get_by_filename(file_name) ==
    IF \E d \in documents : d.filename = file_name
    THEN CHOOSE d \in documents : d.filename = file_name
    ELSE NoRow

\* crud.documents.create.  The filename is unique in the table and stands
\* for the row's primary key.
crud_documents_create(filename, user) ==
    documents' = documents \cup
          {[id |-> filename, filename |-> filename,
            uploaded_by |-> users[user].id,
            department_id |-> users[user].department_id]}

\* crud.documents.remove
crud_documents_remove(id) ==
    documents' = {d \in documents : d.id # id}

\* IngestService.get_doc_ids_by_filename
get_doc_ids_by_filename(filename) ==
    {d.doc_id : d \in {x \in ingested : x.file_name = filename}}

\* The IngestedDoc's that ingest_bin_data / ingest_text make of one file.
\* Their doc_ids are fresh: the first k ids no stored document has.
FreeIds == DocIds \ {d.doc_id : d \in ingested}
new_docs(file_name, k) ==
    {[doc_id |-> i, file_name |-> file_name] :
        i \in {j \in FreeIds : Cardinality({h \in FreeIds : h < j}) < k}}

\* IngestService.ingest_bin_data / ingest_text storing k documents.
service_ingest(file_name, k) ==
    ingested' = ingested \cup new_docs(file_name, k)

\* IngestService.delete for each doc_id of a set.
service_delete(doc_ids) ==
    ingested' = {d \in ingested : d.doc_id \notin doc_ids}

IngestResponse(data) == [object |-> "list", model |-> "private-gpt", data |-> data]

\* deps.get_audit_logger's log_audit.  No handler reads the table, so the
\* model keeps its length and its newest row.
AuditRow(action, status, filename, user_id) ==
    [model |-> "Document", action |-> action, status |-> status,
     filename |-> filename, user_id |-> user_id]
NoAudit == [count |-> 0, last |-> AuditRow("", "", None, NoId)]
log_audit(action, status, filename, user_id) ==
    audit' = [count |-> audit.count + 1,
              last |-> AuditRow(action, status, filename, user_id)]

\* ingest_file that ingests without registering the document row.
ingest_file_NoRecord(token, user, filename, fault, k) ==
    LET file_ingested == get_by_filename(filename)
        R(status, detail, body) ==
            Response("ingest_file", AdminScopes, token, TRUE, user, filename, NoId,
                     file_ingested # NoRow, fault, status, detail, body, {})
    IN
    IF file_ingested # NoRow
    THEN /\ resp' = R(409, "File already exists. Choose a different file.", NoBody)
         /\ UNCHANGED ingest_vars
    ELSE IF filename = None
    THEN /\ resp' = R(400, "No file name provided", NoBody)
         /\ UNCHANGED ingest_vars
    ELSE IF fault = "create"
    THEN /\ resp' = R(500, "Unable to upload file.", NoBody)
         /\ UNCHANGED ingest_vars
    ELSE IF fault = "write"
    THEN /\ log_audit("create", "500", None, user)
         /\ resp' = R(500, "Internal Server Error: Unable to ingest file.", NoBody)
         /\ UNCHANGED <<documents, ingested, uploads>>
    ELSE IF fault = "ingest"
    THEN /\ uploads' = uploads \cup {filename}
         /\ log_audit("create", "500", None, user)
         /\ resp' = R(500, "Internal Server Error: Unable to ingest file.", NoBody)
         /\ UNCHANGED <<documents, ingested>>
    ELSE /\ uploads' = uploads \cup {filename}
         /\ service_ingest(filename, k)
         /\ log_audit("create", "200", filename, user)
         /\ resp' = R(200, "", IngestResponse(new_docs(filename, k)))
         /\ UNCHANGED documents

\* ingest_file without its "except HTTPException: raise" clause: the 409 and
\* the 400 fall into "except Exception", which audits and answers 500.
ingest_file_NoReraise(token, user, filename, fault, k) ==
    LET file_ingested == get_by_filename(filename)
        R(status, detail, body) ==
            Response("ingest_file", AdminScopes, token, TRUE, user, filename, NoId,
                     file_ingested # NoRow, fault, status, detail, body, {})
    IN
    IF file_ingested # NoRow \/ filename = None \/ fault = "create"
    THEN /\ log_audit("create", "500", None, user)
         /\ resp' = R(500, "Internal Server Error: Unable to ingest file.", NoBody)
         /\ UNCHANGED <<documents, ingested, uploads>>
    ELSE IF fault = "write"
    THEN /\ crud_documents_create(filename, user)
         /\ log_audit("create", "500", None, user)
         /\ resp' = R(500, "Internal Server Error: Unable to ingest file.", NoBody)
         /\ UNCHANGED <<ingested, uploads>>
    ELSE IF fault = "ingest"
    THEN /\ crud_documents_create(filename, user)
         /\ uploads' = uploads \cup {filename}
         /\ log_audit("create", "500", None, user)
         /\ resp' = R(500, "Internal Server Error: Unable to ingest file.", NoBody)
         /\ UNCHANGED ingested
    ELSE /\ crud_documents_create(filename, user)
         /\ uploads' = uploads \cup {filename}
         /\ service_ingest(filename, k)
         /\ log_audit("create", "200", filename, user)
         /\ resp' = R(200, "", IngestResponse(new_docs(filename, k)))

\* The body of POST /v1/ingest/file, current_user resolved.  "fault" names the
\* first collaborator that raises; the file makes k documents.
ingest_file(token, user, filename, fault, k) ==
    LET file_ingested == get_by_filename(filename)
        R(status, detail, body) ==
            Response("ingest_file", AdminScopes, token, TRUE, user, filename, NoId,
                     file_ingested # NoRow, fault, status, detail, body, {})
    IN
    IF file_ingested # NoRow
    THEN /\ resp' = R(409, "File already exists. Choose a different file.", NoBody)
         /\ UNCHANGED ingest_vars
    ELSE IF filename = None
    THEN /\ resp' = R(400, "No file name provided", NoBody)
         /\ UNCHANGED ingest_vars
    ELSE IF fault = "create"
    THEN /\ resp' = R(500, "Unable to upload file.", NoBody)
         /\ UNCHANGED ingest_vars
    ELSE IF fault = "write"
    THEN /\ crud_documents_create(filename, user)
         /\ log_audit("create", "500", None, user)
         /\ resp' = R(500, "Internal Server Error: Unable to ingest file.", NoBody)
         /\ UNCHANGED <<ingested, uploads>>
    ELSE IF fault = "ingest"
    THEN /\ crud_documents_create(filename, user)
         /\ uploads' = uploads \cup {filename}
         /\ log_audit("create", "500", None, user)
         /\ resp' = R(500, "Internal Server Error: Unable to ingest file.", NoBody)
         /\ UNCHANGED ingested
    ELSE /\ crud_documents_create(filename, user)
         /\ uploads' = uploads \cup {filename}
         /\ service_ingest(filename, k)
         /\ log_audit("create", "200", filename, user)
         /\ resp' = R(200, "", IngestResponse(new_docs(filename, k)))

\* delete_file that audits the deletion but leaves the document row.
delete_file_KeepRecord(token, user, filename, deleted, rm_ok) ==
    LET doc_ids == get_doc_ids_by_filename(filename)
        document == get_by_filename(filename)
        R(fault, status, detail) ==
            Response("delete_file", AdminScopes, token, TRUE, user, filename, NoId,
                     doc_ids # {}, fault, status, detail, NoBody, {})
    IN
    IF doc_ids = {}
    THEN /\ resp' = R("none", 500, "Internal Server Error")
         /\ UNCHANGED ingest_vars
    ELSE IF deleted # doc_ids
    THEN /\ service_delete(deleted)
         /\ resp' = R("delete", 500, "Internal Server Error")
         /\ UNCHANGED <<documents, uploads, audit>>
    ELSE /\ service_delete(doc_ids)
         /\ uploads' = IF rm_ok THEN uploads \ {filename} ELSE uploads
         /\ IF document # NoRow
            THEN log_audit("delete", "SUCCESS", filename, user)
            ELSE UNCHANGED audit
         /\ UNCHANGED documents
         /\ resp' = R(IF rm_ok THEN "none" ELSE "remove", 200, "SUCCESS")

\* The body of POST /v1/ingest/file/delete, current_user resolved.  "deleted"
\* are the documents service.delete removed before it raised, all of them if
\* it did not raise; rm_ok says whether os.remove succeeded.
delete_file(token, user, filename, deleted, rm_ok) ==
    LET doc_ids == get_doc_ids_by_filename(filename)
        document == get_by_filename(filename)
        R(fault, status, detail) ==
            Response("delete_file", AdminScopes, token, TRUE, user, filename, NoId,
                     doc_ids # {}, fault, status, detail, NoBody, {})
    IN
    IF doc_ids = {}
    THEN \* the HTTPException(404) is caught by "except Exception"
         /\ resp' = R("none", 500, "Internal Server Error")
         /\ UNCHANGED ingest_vars
    ELSE IF deleted # doc_ids
    THEN /\ service_delete(deleted)
         /\ resp' = R("delete", 500, "Internal Server Error")
         /\ UNCHANGED <<documents, uploads, audit>>
    ELSE /\ service_delete(doc_ids)
         /\ uploads' = IF rm_ok THEN uploads \ {filename} ELSE uploads
         /\ IF document # NoRow
            THEN /\ log_audit("delete", "SUCCESS", filename, user)
                 /\ crud_documents_remove(document.id)
            ELSE UNCHANGED <<audit, documents>>
         /\ resp' = R(IF rm_ok THEN "none" ELSE "remove", 200, "SUCCESS")

\* POST /v1/ingest/text
ingest_text(file_name) ==
    LET R(status, detail, body) ==
            Response("ingest_text", NoScopes, NoResponse.token, TRUE, NoId, file_name,
                     NoId, FALSE, "none", status, detail, body, {})
    IN
    IF file_name = ""
    THEN /\ resp' = R(400, "No file name provided", NoBody)
         /\ UNCHANGED ingest_vars
    ELSE /\ service_ingest(file_name, 1)
         /\ resp' = R(200, "", IngestResponse(new_docs(file_name, 1)))
         /\ UNCHANGED <<documents, uploads, audit>>

\* DELETE /v1/ingest/{doc_id}
delete_ingested(doc_id) ==
    /\ service_delete({doc_id})
    /\ resp' = Response("delete_ingested", NoScopes, NoResponse.token, TRUE, NoId,
                        None, NoId, FALSE, "none", 200, "", NoBody, {})
    /\ UNCHANGED <<documents, uploads, audit>>

(***************************************************************************)
(* The chat history router.                                                *)
(***************************************************************************)
ChatIds == 1..MaxChats
Messages == {"hi"}

\* crud.chat.get / crud.chat.get_by_id: the row with that id, or None.
crud_chat_get(id) ==
    IF \E c \in chats : c.id = id THEN CHOOSE c \in chats : c.id = id ELSE NoRow

\* crud.chat.get_multi: the user's rows in id order, skip dropped, limit kept.
crud_chat_get_multi(skip, limit, user_id) ==
    LET mine == {c \in chats : c.user_id = user_id}
        rank(c) == Cardinality({d \in mine : d.id < c.id})
    IN {c \in mine : skip <= rank(c) /\ rank(c) < skip + limit}

\* crud.chat.create
NewChat(user_id) == [id |-> chat_seq + 1, user_id |-> user_id, messages |-> <<>>]

\* crud.chat.update_messages
UpdatedChat(db_obj, message) == [db_obj EXCEPT !.messages = Append(@, message)]

ChatResponse(op, token, user, chat_id, found, status, detail, touched) ==
    Response(op, NoScopes, token, TRUE, user, None, chat_id, found, "none",
             status, detail, NoBody, touched)

\* GET /c
list_chat_histories(token, user, skip, limit) ==
    /\ resp' = ChatResponse("list_chat_histories", token, user, NoId, FALSE, 200, "",
                            crud_chat_get_multi(skip, limit, user))
    /\ UNCHANGED chat_vars

\* POST /c/create
create_chat_history(token, user) ==
    /\ chats' = chats \cup {NewChat(user)}
    /\ chat_seq' = chat_seq + 1
    /\ resp' = ChatResponse("create_chat_history", token, user, chat_seq + 1, FALSE,
                            200, "", {NewChat(user)})

\* GET /c/{chat_history_id}
read_chat_history(token, user, chat_history_id) ==
    LET chat_history == crud_chat_get(chat_history_id)
        R(status, detail, touched) ==
            ChatResponse("read_chat_history", token, user, chat_history_id,
                         chat_history # NoRow, status, detail, touched)
    IN
    /\ IF chat_history = NoRow \/ chat_history.user_id # user
       THEN \* the HTTPException(404) is caught by "except Exception"
            resp' = R(500, "Internal Server Error", {})
       ELSE resp' = R(200, "", {chat_history})
    /\ UNCHANGED chat_vars

\* POST /c/conversation
conversation(token, user, conversation_id, message) ==
    LET chat_history == crud_chat_get(conversation_id)
        R(status, detail, touched) ==
            ChatResponse("conversation", token, user, conversation_id,
                         chat_history # NoRow, status, detail, touched)
    IN
    IF chat_history = NoRow \/ chat_history.user_id # user
    THEN \* the HTTPException(404) is caught by "except Exception"
         /\ resp' = R(500, "Internal Server Error", {})
         /\ UNCHANGED chat_vars
    ELSE /\ chats' = (chats \ {chat_history}) \cup {UpdatedChat(chat_history, message)}
         /\ resp' = R(200, "", {UpdatedChat(chat_history, message)})
         /\ UNCHANGED chat_seq

\* delete_chat_history that checks only that the row exists.
delete_chat_history_NoOwnerCheck(token, user, chat_history_id) ==
    LET chat_history == crud_chat_get(chat_history_id)
        R(status, detail, touched) ==
            ChatResponse("delete_chat_history", token, user, chat_history_id,
                         chat_history # NoRow, status, detail, touched)
    IN
    IF chat_history = NoRow
    THEN /\ resp' = R(500, "Internal Server Error", {})
         /\ UNCHANGED chat_vars
    ELSE /\ chats' = {c \in chats : c.id # chat_history_id}
         /\ resp' = R(200, "Chat history deleted successfully", {chat_history})
         /\ UNCHANGED chat_seq

\* POST /c/delete
delete_chat_history(token, user, chat_history_id) ==
    LET chat_history == crud_chat_get(chat_history_id)
        R(status, detail, touched) ==
            ChatResponse("delete_chat_history", token, user, chat_history_id,
                         chat_history # NoRow, status, detail, touched)
    IN
    IF chat_history = NoRow \/ chat_history.user_id # user
    THEN \* the HTTPException(404) is caught by "except Exception"
         /\ resp' = R(500, "Internal Server Error", {})
         /\ UNCHANGED chat_vars
    ELSE /\ chats' = {c \in chats : c.id # chat_history_id}
         /\ resp' = R(200, "Chat history deleted successfully", {chat_history})
         /\ UNCHANGED chat_seq

(***************************************************************************)
(* The dependency gate of each endpoint that declares                      *)
(* Security(deps.get_current_user, scopes=...).                            *)
(***************************************************************************)
ChatEndpoints ==
    {"list_chat_histories", "create_chat_history", "read_chat_history",
     "conversation", "delete_chat_history"}
AdminEndpoints == {"ingest_file", "delete_file"}
EndpointScopes(op) == IF op \in AdminEndpoints THEN AdminScopes ELSE NoScopes

\* The dependency yielded current_user: the handler is called with it.
Admitted(op, scopes, token) ==
    resp' = Response(op, scopes, token, TRUE, get_current_user(scopes, token).user,
                     None, NoId, FALSE, "none", 200, "", NoBody, {})

(***************************************************************************)
(* The completions SSE stream.                                             *)
(***************************************************************************)
DONE == <<"[DONE]">>
Deltas == {"tok", "[DONE]"}

\* OpenAICompletion.simple_json_delta: a JSON object holding the text.
simple_json_delta(text) == <<"{json}", text>>

\* f"data: {payload}\n\n"
DataEvent(payload) == [data |-> payload]

SSEIdle == [route |-> "none", responses |-> <<>>, i |-> 0, out |-> <<>>, pc |-> "idle"]

\* _run_llm of either module: the LLM's stream_complete gives the responses.
StartStream(route, responses) ==
    sse' = [route |-> route, responses |-> responses, i |-> 0, out |-> <<>>,
            pc |-> "streaming"]

\* _to_openai_sse_stream leaving its loop one response early.
to_openai_sse_stream_OffByOne ==
    IF sse.i + 1 < Len(sse.responses)
    THEN sse' = [sse EXCEPT
                   !.i = @ + 1,
                   !.out = Append(@, DataEvent(simple_json_delta(sse.responses[sse.i + 1])))]
    ELSE sse' = [sse EXCEPT !.out = Append(@, DataEvent(DONE)), !.pc = "done"]

\* One resumption of the generator _to_openai_sse_stream.
to_openai_sse_stream ==
    IF sse.i < Len(sse.responses)
    THEN sse' = [sse EXCEPT
                   !.i = @ + 1,
                   !.out = Append(@, DataEvent(simple_json_delta(sse.responses[sse.i + 1])))]
    ELSE sse' = [sse EXCEPT !.out = Append(@, DataEvent(DONE)), !.pc = "done"]

\* One resumption of the generator _run_llm of src/api/main.py.
run_llm ==
    IF sse.i < Len(sse.responses)
    THEN sse' = [sse EXCEPT
                   !.i = @ + 1,
                   !.out = Append(@, DataEvent(simple_json_delta(sse.responses[sse.i + 1])))]
    ELSE sse' = [sse EXCEPT !.out = Append(@, DataEvent(DONE)), !.pc = "done"]

(***************************************************************************)
(* ChatService.                                                            *)
(***************************************************************************)
ChatMessage(content) == [role |-> "user", content |-> content]
ChatMessages == {ChatMessage(c) : c \in {"hi", None}}

NoContextFiles == [given |-> FALSE, ids |-> {}]
ContextFiles(ids) == [given |-> TRUE, ids |-> ids]

\* The docstore: the nodes of each ingested document.
DocstoreDocs == {"doc1", "doc2"}
ref_doc_node_ids(doc_id) ==
    IF doc_id = "doc1" THEN {"n1", "n2"} ELSE IF doc_id = "doc2" THEN {"n3"} ELSE {}

\* node_utils.get_context_nodes
get_context_nodes(context_files) ==
    UNION {ref_doc_node_ids(doc_id) : doc_id \in context_files.ids}

EngineCall(engine, streaming, message, chat_history, node_ids, messages) ==
    [engine |-> engine, streaming |-> streaming, message |-> message,
     chat_history |-> chat_history, node_ids |-> node_ids, messages |-> messages]

NoCall == EngineCall("none", FALSE, "", <<>>, {}, <<>>)
IndexError == EngineCall("IndexError", FALSE, "", <<>>, {}, <<>>)

\* messages[:-1]
AllButLast(messages) == SubSeq(messages, 1, Len(messages) - 1)

\* ChatService._chat_with_contex
chat_with_contex(message, context_files, chat_history, streaming) ==
    EngineCall("ContextChatEngine", streaming, message, chat_history,
               get_context_nodes(context_files), <<>>)

\* stream_chat passing the whole list as the chat history.
stream_chat_FullHistory(messages, context_files) ==
    IF context_files # NoContextFiles
    THEN IF Len(messages) = 0
         THEN IndexError
         ELSE LET last_message == messages[Len(messages)].content IN
              chat_with_contex(IF last_message # None THEN last_message ELSE "",
                               context_files, messages, TRUE)
    ELSE EngineCall("llm", TRUE, "", <<>>, {}, messages)

\* ChatService.stream_chat: the call it makes.
stream_chat(messages, context_files) ==
    IF context_files # NoContextFiles
    THEN IF Len(messages) = 0
         THEN IndexError
         ELSE LET last_message == messages[Len(messages)].content IN
              chat_with_contex(IF last_message # None THEN last_message ELSE "",
                               context_files, AllButLast(messages), TRUE)
    ELSE EngineCall("llm", TRUE, "", <<>>, {}, messages)

\* ChatService.chat: the call it makes.
chat(messages, context_files) ==
    IF context_files # NoContextFiles
    THEN IF Len(messages) = 0
         THEN IndexError
         ELSE LET last_message == messages[Len(messages)].content IN
              chat_with_contex(IF last_message # None THEN last_message ELSE "",
                               context_files, AllButLast(messages), FALSE)
    ELSE EngineCall("llm", FALSE, "", <<>>, {}, messages)

SvcIdle == [op |-> "none", messages |-> <<>>, context_files |-> NoContextFiles,
            call |-> NoCall]

(***************************************************************************)
(* Actions.                                                                *)
(***************************************************************************)
RECURSIVE SeqsUpTo(_, _)
SeqsUpTo(S, n) ==
    IF n = 0 THEN {<<>>}
    ELSE LET shorter == SeqsUpTo(S, n - 1) IN
         shorter \cup {Append(q, x) : q \in shorter, x \in S}

OnlyIngest == UNCHANGED <<chat_vars, sse, svc>>
OnlyChats == UNCHANGED <<ingest_vars, sse, svc>>
OnlyResp == UNCHANGED <<ingest_vars, chat_vars, sse, svc>>
OnlySSE == UNCHANGED <<ingest_vars, chat_vars, resp, svc>>
OnlySvc == UNCHANGED <<ingest_vars, chat_vars, resp, sse>>

IngestFile ==
    \E token \in Accepted(AdminScopes), filename \in FileNames \cup {None},
       fault \in Faults, k \in 1..MaxDocsPerFile :
        /\ audit.count < MaxAudit
        /\ Cardinality(ingested) + k <= MaxDocs
        /\ ingest_file(token, get_current_user(AdminScopes, token).user, filename, fault, k)
        /\ OnlyIngest

DeleteFile ==
    \E token \in Accepted(AdminScopes), filename \in FileNames :
       \E deleted \in SUBSET get_doc_ids_by_filename(filename), rm_ok \in BOOLEAN :
        /\ audit.count < MaxAudit
        /\ delete_file(token, get_current_user(AdminScopes, token).user, filename,
                       deleted, rm_ok)
        /\ OnlyIngest

IngestText ==
    \E file_name \in FileNames \cup {""} :
        /\ Cardinality(ingested) + 1 <= MaxDocs
        /\ ingest_text(file_name)
        /\ OnlyIngest

DeleteIngested ==
    \E doc_id \in DocIds :
        /\ delete_ingested(doc_id)
        /\ OnlyIngest

ListChatHistories ==
    \E token \in Accepted(NoScopes), skip \in {0, 1}, limit \in {1, 100} :
        /\ list_chat_histories(token, get_current_user(NoScopes, token).user, skip, limit)
        /\ OnlyChats

CreateChatHistory ==
    \E token \in Accepted(NoScopes) :
        /\ chat_seq < MaxChats
        /\ create_chat_history(token, get_current_user(NoScopes, token).user)
        /\ OnlyChats

ReadChatHistory ==
    \E token \in Accepted(NoScopes), chat_history_id \in ChatIds :
        /\ read_chat_history(token, get_current_user(NoScopes, token).user, chat_history_id)
        /\ OnlyChats

Conversation ==
    \E token \in Accepted(NoScopes), conversation_id \in ChatIds, message \in Messages :
        /\ IF crud_chat_get(conversation_id) = NoRow
           THEN TRUE
           ELSE Len(crud_chat_get(conversation_id).messages) < MaxMessages
        /\ conversation(token, get_current_user(NoScopes, token).user, conversation_id,
                        message)
        /\ OnlyChats

DeleteChatHistory ==
    \E token \in Accepted(NoScopes), chat_history_id \in ChatIds :
        /\ delete_chat_history(token, get_current_user(NoScopes, token).user,
                               chat_history_id)
        /\ OnlyChats

Reject ==
    \E op \in AdminEndpoints \cup ChatEndpoints :
       \E token \in Tokens \ Accepted(EndpointScopes(op)) :
        /\ Rejected(op, EndpointScopes(op), token)
        /\ OnlyResp

Admit ==
    \E op \in AdminEndpoints \cup ChatEndpoints :
       \E token \in Accepted(EndpointScopes(op)) :
        /\ Admitted(op, EndpointScopes(op), token)
        /\ OnlyResp

Completions ==
    \E responses \in SeqsUpTo(Deltas, MaxResponses) :
        /\ sse.pc \in {"idle", "done"}
        /\ StartStream("completions", responses)
        /\ OnlySSE

Inference ==
    \E responses \in SeqsUpTo(Deltas, MaxResponses) :
        /\ sse.pc \in {"idle", "done"}
        /\ StartStream("inference", responses)
        /\ OnlySSE

ToOpenaiSseStream ==
    /\ sse.pc = "streaming"
    /\ sse.route = "completions"
    /\ to_openai_sse_stream
    /\ OnlySSE

RunLlm ==
    /\ sse.pc = "streaming"
    /\ sse.route = "inference"
    /\ run_llm
    /\ OnlySSE

Chat ==
    \E messages \in SeqsUpTo(ChatMessages, MaxChatMessages),
       context_files \in {NoContextFiles} \cup
                         {ContextFiles(ids) : ids \in SUBSET (DocstoreDocs \cup {"gone"})} :
        /\ svc' = [op |-> "chat", messages |-> messages,
                   context_files |-> context_files,
                   call |-> chat(messages, context_files)]
        /\ OnlySvc

StreamChat ==
    \E messages \in SeqsUpTo(ChatMessages, MaxChatMessages),
       context_files \in {NoContextFiles} \cup
                         {ContextFiles(ids) : ids \in SUBSET (DocstoreDocs \cup {"gone"})} :
        /\ svc' = [op |-> "stream_chat", messages |-> messages,
                   context_files |-> context_files,
                   call |-> stream_chat(messages, context_files)]
        /\ OnlySvc

Init ==
    /\ documents = {}
    /\ ingested = {}
    /\ uploads = {}
    /\ audit = NoAudit
    /\ chats = {}
    /\ chat_seq = 0
    /\ resp = NoResponse
    /\ sse = SSEIdle
    /\ svc = SvcIdle

IngestNext ==
    \/ IngestFile
    \/ DeleteFile
    \/ IngestText
    \/ DeleteIngested

ChatHistoryNext ==
    \/ ListChatHistories
    \/ CreateChatHistory
    \/ ReadChatHistory
    \/ Conversation
    \/ DeleteChatHistory

AuthNext ==
    \/ Reject
    \/ Admit

SSENext ==
    \/ Completions
    \/ Inference
    \/ ToOpenaiSseStream
    \/ RunLlm

ChatServiceNext ==
    \/ Chat
    \/ StreamChat

Next ==
    \/ IngestNext
    \/ ChatHistoryNext
    \/ AuthNext
    \/ SSENext
    \/ ChatServiceNext

Spec == Init /\ [][Next]_vars
SpecIngest == Init /\ [][IngestNext]_vars
SpecChatHistory == Init /\ [][ChatHistoryNext]_vars
SpecAuth == Init /\ [][AuthNext]_vars
SpecSSE == Init /\ [][SSENext]_vars
\* StreamingResponse resumes the generator it was given until it is exhausted.
SpecSSEFair == SpecSSE /\ WF_vars(ToOpenaiSseStream) /\ WF_vars(RunLlm)
SpecChatService == Init /\ [][ChatServiceNext]_vars

(***************************************************************************)
(* The claims.                                                             *)
(***************************************************************************)

\* The events emitted so far are a prefix of: the n events "data: <delta of ri>"
\* in the order of the responses, then one "data: [DONE]".  No delta event is
\* the [DONE] event, [DONE] is not emitted while a response is left, and a
\* finished generator has emitted exactly n + 1 events.
SseStreamOk ==
    sse.pc # "idle" =>
        LET n == Len(sse.responses) IN
        /\ Len(sse.out) <= n + 1
        /\ \A j \in 1..Len(sse.out) :
              IF j <= n
              THEN /\ sse.out[j] = DataEvent(simple_json_delta(sse.responses[j]))
                   /\ sse.out[j] # DataEvent(DONE)
              ELSE sse.out[j] = DataEvent(DONE)
        /\ (sse.pc = "streaming" => Len(sse.out) = sse.i /\ sse.i <= n)
        /\ (sse.pc = "done" => Len(sse.out) = n + 1)

\* C1: for every finite sequence of LLM responses r1..rn the stream emits the n
\* events "data: <delta of ri>", one per response and in their order, then one
\* "data: [DONE]" and nothing after it; [DONE] never comes before the last
\* delta; and a stream that was started is finished.
C1_SseStream ==
    /\ []SseStreamOk
    /\ (sse.pc = "streaming" ~> sse.pc = "done")

\* C1 witness: a finished /completions stream of several responses, one of
\* them with the text "[DONE]".
C1_Witness ==
    /\ sse.pc = "done"
    /\ sse.route = "completions"
    /\ Len(sse.responses) = MaxResponses
    /\ sse.responses[1] = "[DONE]"

\* The request of the step is op, its handler ran.
Handled(op) == resp'.op = op /\ resp'.admitted

C3_Conflict ==
    [][(Handled("ingest_file") /\ get_by_filename(resp'.filename) # NoRow)
       => /\ resp'.status = 409
          /\ resp'.detail = "File already exists. Choose a different file."
          /\ UNCHANGED ingest_vars]_vars

\* C3 witness: an upload of a registered filename was answered.
C3_Witness ==
    /\ resp.op = "ingest_file"
    /\ resp.admitted
    /\ resp.found
    /\ resp.status = 409

\* C4 as stated: POST /v1/ingest/file/delete for a filename without ingested
\* documents answers 404 and deletes nothing.
C4_NotFound ==
    [][(Handled("delete_file") /\ get_doc_ids_by_filename(resp'.filename) = {})
       => /\ resp'.status = 404
          /\ UNCHANGED ingest_vars]_vars

\* C5: when POST /v1/ingest/file/delete has answered SUCCESS, no ingested
\* document and no document row with that filename is left, and an upload of
\* the same filename that follows is not answered 409.
C5_Deleted ==
    /\ [](resp.op = "delete_file" /\ resp.status = 200
          => /\ get_doc_ids_by_filename(resp.filename) = {}
             /\ get_by_filename(resp.filename) = NoRow)
    /\ [][(resp.op = "delete_file" /\ resp.status = 200
           /\ Handled("ingest_file") /\ resp'.filename = resp.filename)
          => resp'.status # 409]_vars

\* C5 witness: a delete answered SUCCESS that removed a document row.
C5_Witness ==
    /\ resp.op = "delete_file"
    /\ resp.status = 200
    /\ audit.last.action = "delete"
    /\ audit.last.filename = resp.filename

\* The chat history the request of the step names is missing or another user's.
NotMine ==
    \/ crud_chat_get(resp'.chat_id) = NoRow
    \/ crud_chat_get(resp'.chat_id).user_id # resp'.user

\* C6 as stated: reading, updating or deleting a chat history that does not
\* exist or belongs to another user answers 404 "Chat history not found" and
\* leaves the chat histories unchanged.
C6_NotFound ==
    [][((Handled("read_chat_history") \/ Handled("conversation")
         \/ Handled("delete_chat_history")) /\ NotMine)
       => /\ resp'.status = 404
          /\ resp'.detail = "Chat history not found"
          /\ UNCHANGED chat_vars]_vars

\* C7: in every request the chat histories returned, the chat histories
\* changed and the chat histories removed are owned by the requesting user,
\* and a created chat history is owned by its creator.
C7_Isolation ==
    [][/\ \A c \in resp'.touched : c.user_id = resp'.user
       /\ \A c \in (chats \ chats') \cup (chats' \ chats) : c.user_id = resp'.user
       /\ (resp'.op = "list_chat_histories" /\ resp'.admitted
             => resp'.touched \subseteq chats)]_vars

\* C7 witness: a user asked to delete an existing chat history of another user.
C7_Witness ==
    /\ resp.op = "delete_chat_history"
    /\ resp.admitted
    /\ \E c \in chats : c.id = resp.chat_id /\ c.user_id # resp.user

\* C8: the dependency yields a user exactly when the token decodes, its payload
\* has an id and validates, a user with that id exists and, if the endpoint
\* declares scopes, the token's role is one of them; the user is the one the
\* token names.  Otherwise it raises 403 when the token does not decode or its
\* payload (having an id) does not validate, and 401 in the other cases.
\* ingest_file and delete_file run only for tokens of role ADMIN or SUPER_ADMIN.
C8_CurrentUser ==
    resp.op # "none" =>
        LET t == resp.token
            p == resp.token.payload
            ok == /\ t.decodable
                  /\ p.id # NoId
                  /\ p.valid
                  /\ p.id \in UserIds
                  /\ (resp.scopes # {} => p.role \in resp.scopes)
        IN
        /\ resp.admitted <=> ok
        /\ resp.admitted => resp.user = p.id /\ resp.status = 200
        /\ ~resp.admitted =>
              resp.status = IF ~t.decodable \/ (p.id # NoId /\ ~p.valid) THEN 403 ELSE 401
        /\ (resp.admitted /\ resp.op \in {"ingest_file", "delete_file"})
              => p.role \in {ADMIN, SUPER_ADMIN}

\* C8 witness: a valid token of an existing user with role GUEST was refused
\* by an endpoint that requires ADMIN or SUPER_ADMIN.
C8_Witness ==
    /\ resp.op = "delete_file"
    /\ ~resp.admitted
    /\ resp.status = 401
    /\ resp.token.decodable
    /\ resp.token.payload.valid
    /\ resp.token.payload.id \in UserIds
    /\ resp.token.payload.role = GUEST

\* C9: for a non-empty message list chat and stream_chat make the same call but
\* for the streaming flag.  With context files: the context chat engine gets
\* the content of the last message ("" if it is None) as the query, all
\* preceding messages in order as the chat history, and a retriever over the
\* nodes of the context files.  Without: the LLM gets the whole message list
\* and nothing is retrieved.
C9_SameBranch ==
    (svc.op # "none" /\ Len(svc.messages) > 0) =>
        LET m == svc.messages
            n == Len(svc.messages)
            c == svc.call
        IN
        /\ c.streaming = (svc.op = "stream_chat")
        /\ IF svc.context_files.given
           THEN /\ c.engine = "ContextChatEngine"
                /\ c.message = (IF m[n].content = None THEN "" ELSE m[n].content)
                /\ Len(c.chat_history) = n - 1
                /\ \A j \in 1..(n - 1) : c.chat_history[j] = m[j]
                /\ c.node_ids =
                      {x \in {"n1", "n2", "n3"} :
                          \E d \in svc.context_files.ids : x \in ref_doc_node_ids(d)}
           ELSE /\ c.engine = "llm"
                /\ c.messages = m
                /\ c.node_ids = {}

\* C9 witness: stream_chat with context files, several messages, the last one
\* without content.
C9_Witness ==
    /\ svc.op = "stream_chat"
    /\ svc.context_files.given
    /\ svc.context_files.ids = {"doc1", "gone"}
    /\ Len(svc.messages) >= 2
    /\ svc.messages[Len(svc.messages)].content = None
====
